---- MODULE Spec2Model ----
(***************************************************************************)
(* Model of oak's Response (src/response.ts): the mutable per-request      *)
(* response that middleware write through property setters and redirect(), *)
(* and that toServerResponse() converts once into the server payload.      *)
(*                                                                         *)
(* JavaScript values are tagged records ([kind |-> ...]); JavaScript       *)
(* strings are sequences of one-character strings, so that String(),       *)
(* TextEncoder.encode, JSON.stringify and the URL escapes are computed.    *)
(***************************************************************************)
EXTENDS Integers, Sequences, FiniteSets, TLC

\* ------------------------------------------------------------------ bounds

\* Number of Headers objects a behaviour may allocate (the one made by the
\* constructor included); bounds the calls of the headers setter.
MaxHdrObjs == 2

\* ------------------------------------------------------------- characters

Ascii ==
  << " ", "!", "\"", "#", "$", "%", "&", "'", "(", ")", "*", "+", ",", "-",
     ".", "/", "0", "1", "2", "3", "4", "5", "6", "7", "8", "9", ":", ";",
     "<", "=", ">", "?", "@", "A", "B", "C", "D", "E", "F", "G", "H", "I",
     "J", "K", "L", "M", "N", "O", "P", "Q", "R", "S", "T", "U", "V", "W",
     "X", "Y", "Z", "[", "\\", "]", "^", "_", "U+0060", "a", "b", "c", "d", "e",
     "f", "g", "h", "i", "j", "k", "l", "m", "n", "o", "p", "q", "r", "s",
     "t", "u", "v", "w", "x", "y", "z", "{", "|", "}", "~" >>

\* Code point of a character: printable ASCII (the grave accent, which a
\* TLA+ string cannot hold, is spelled "U+0060"), and U+00E9 as the one
\* character outside ASCII.
CharCode(c) ==
  IF c = "é" THEN 233 ELSE 31 + (CHOOSE i \in 1..Len(Ascii) : Ascii[i] = c)

Digits == << "0", "1", "2", "3", "4", "5", "6", "7", "8", "9" >>

HexDigits ==
  << "0", "1", "2", "3", "4", "5", "6", "7", "8", "9",
     "A", "B", "C", "D", "E", "F" >>

\* UTF-8 bytes of one code point below U+0800.
Utf8(code) ==
  IF code < 128 THEN << code >>
  ELSE << 192 + (code \div 64), 128 + (code % 64) >>

RECURSIVE encode(_)
\* TextEncoder.encode: the UTF-8 bytes of a string.
encode(text) ==
  IF text = << >> THEN << >>
  ELSE Utf8(CharCode(Head(text))) \o encode(Tail(text))

RECURSIVE NumberToString(_)
\* Decimal digits of a non-negative integer.
NumberToString(n) ==
  IF n < 10 THEN << Digits[n + 1] >>
  ELSE NumberToString(n \div 10) \o << Digits[(n % 10) + 1] >>

\* ------------------------------------------------------------ text literals

TxtSlash == << "/" >>
TxtHtml == << "h", "t", "m", "l" >>
TxtJson == << "j", "s", "o", "n" >>
TxtBogus == << "b", "o", "g", "u", "s" >>
TxtTextPlain == << "t", "e", "x", "t", "/", "p", "l", "a", "i", "n" >>
TxtCharset ==
  << ";", " ", "c", "h", "a", "r", "s", "e", "t", "=", "u", "t", "f", "-", "8" >>
TxtTextHtml == << "t", "e", "x", "t", "/", "h", "t", "m", "l" >>
TxtAppJson ==
  << "a", "p", "p", "l", "i", "c", "a", "t", "i", "o", "n", "/", "j", "s", "o", "n" >>
TxtImagePng == << "i", "m", "a", "g", "e", "/", "p", "n", "g" >>
TxtRedirecting ==
  << "R", "e", "d", "i", "r", "e", "c", "t", "i", "n", "g", " ", "t", "o", " " >>
TxtTrue == << "t", "r", "u", "e" >>
TxtFalse == << "f", "a", "l", "s", "e" >>
TxtNull == << "n", "u", "l", "l" >>
TxtUndefined == << "u", "n", "d", "e", "f", "i", "n", "e", "d" >>

\* -------------------------------------------------------- JavaScript values

Undefined == [kind |-> "undefined"]
Null == [kind |-> "null"]
Str(text) == [kind |-> "string", text |-> text]
Num(n) == [kind |-> "number", num |-> n]
Bool(b) == [kind |-> "boolean", bool |-> b]
Bytes(bs) == [kind |-> "Uint8Array", bytes |-> bs]
Reader == [kind |-> "reader"]
Obj(entries) == [kind |-> "object", entries |-> entries]
Func == [kind |-> "function"]
\* new Number(n): an object wrapping a number.
BoxedNum(n) == [kind |-> "Number", num |-> n]
Url(href) == [kind |-> "URL", href |-> href]
REDIRECT_BACK == [kind |-> "symbol", description |-> "redirect backwards"]

\* The typeof operator.
TypeOf(v) ==
  CASE v.kind = "undefined" -> "undefined"
    [] v.kind = "string" -> "string"
    [] v.kind = "number" -> "number"
    [] v.kind = "boolean" -> "boolean"
    [] v.kind = "symbol" -> "symbol"
    [] v.kind = "function" -> "function"
    [] OTHER -> "object"

\* ToBoolean: what `if (v)`, `v && ...`, `v || ...` and `!v` test.
Truthy(v) ==
  CASE v.kind = "undefined" -> FALSE
    [] v.kind = "null" -> FALSE
    [] v.kind = "string" -> v.text # << >>
    [] v.kind = "number" -> v.num # 0
    [] v.kind = "boolean" -> v.bool
    [] OTHER -> TRUE

\* String(v).
String(v) ==
  CASE v.kind = "string" -> v.text
    [] v.kind = "number" -> NumberToString(v.num)
    [] v.kind = "Number" -> NumberToString(v.num)
    [] v.kind = "boolean" -> (IF v.bool THEN TxtTrue ELSE TxtFalse)
    [] v.kind = "URL" -> v.href
    [] v.kind = "null" -> TxtNull
    [] OTHER -> TxtUndefined

RECURSIVE StringifyEntries(_)
StringifyEntries(entries) ==
  IF entries = << >> THEN << >>
  ELSE LET e == Head(entries)
           one == << "\"" >> \o e.key \o << "\"", ":" >> \o NumberToString(e.num)
       IN  IF Tail(entries) = << >> THEN one
           ELSE one \o << "," >> \o StringifyEntries(Tail(entries))

\* JSON.stringify of a plain object whose properties hold numbers, and of a
\* Number object (serialized as the number it wraps).
JSONstringify(v) ==
  IF v.kind = "Number" THEN NumberToString(v.num)
  ELSE << "{" >> \o StringifyEntries(v.entries) \o << "}" >>

\* ?? : the left operand unless it is null or undefined.
Nullish(v) == v.kind \in {"undefined", "null"}

\* ------------------------------------------------------------ URL escaping

\* The characters encodeURI leaves alone: letters, digits and
\* ; , / ? : @ & = + $ - _ . ! ~ * ' ( ) #
UriKept ==
  { Ascii[i] : i \in (17..26) \cup (34..59) \cup (66..91) } \cup
  { ";", ",", "/", "?", ":", "@", "&", "=", "+", "$", "-", "_", ".", "!",
    "~", "*", "'", "(", ")", "#" }

PercentByte(b) == << "%", HexDigits[(b \div 16) + 1], HexDigits[(b % 16) + 1] >>

RECURSIVE PercentBytes(_)
PercentBytes(bs) ==
  IF bs = << >> THEN << >> ELSE PercentByte(Head(bs)) \o PercentBytes(Tail(bs))

RECURSIVE EscapeExcept(_, _)
\* Percent-encodes the UTF-8 bytes of every character outside kept.
EscapeExcept(text, kept) ==
  IF text = << >> THEN << >>
  ELSE (IF Head(text) \in kept THEN << Head(text) >>
        ELSE PercentBytes(Utf8(CharCode(Head(text)))))
       \o EscapeExcept(Tail(text), kept)

\* The built-in encodeURI.
encodeURI(text) == EscapeExcept(text, UriKept)

\* util.ts encodeUrl: URL-escapes a target, keeping the percent signs of
\* escapes it already contains.
encodeUrl(text) == EscapeExcept(text, UriKept \cup {"%"})

\* ------------------------------------------------------- other collaborators

\* util.ts isHtml: the text contains markup.
isHtml(text) == \E i \in 1..Len(text) : text[i] = "<"

\* util.ts isRedirectStatus: the redirect class of statuses.
isRedirectStatus(s) == s.num \in {300, 301, 302, 303, 305, 307, 308}

\* deps.ts contentType: short name or MIME string to a full Content-Type
\* value, or undefined when the lookup fails.
contentType(t) ==
  CASE t = TxtHtml -> Str(TxtTextHtml \o TxtCharset)
    [] t = TxtJson -> Str(TxtAppJson \o TxtCharset)
    [] t = TxtTextPlain -> Str(TxtTextPlain \o TxtCharset)
    [] t = TxtTextHtml \o TxtCharset -> Str(t)
    [] t = TxtTextPlain \o TxtCharset -> Str(t)
    [] OTHER -> Undefined

\* Status.OK, Status.NotFound, Status.Found.
OK == 200
NotFound == 404
Found == 302

\* ------------------------------------------------------------------ Headers

\* Header names are case-insensitive: Headers keeps them in lower case.
Lower(name) ==
  CASE name = "Content-Type" -> "content-type"
    [] name = "Content-Length" -> "content-length"
    [] name = "Location" -> "location"
    [] OTHER -> name

HeaderNames == {"content-type", "content-length", "location"}

\* new Headers(): no header has a value.
EmptyHeaders == [n \in HeaderNames |-> << >>]

HeadersHas(h, name) == h[Lower(name)] # << >>
HeadersAppend(h, name, value) ==
  [h EXCEPT ![Lower(name)] = Append(@, value)]
HeadersSet(h, name, value) == [h EXCEPT ![Lower(name)] = << value >>]

\* ------------------------------------------------------------------- inputs

TxtHref == << "<", "a", " ", "h", "r", "e", "f", "=", "\"" >>
TxtPath == << "/", "a", " ", "b" >>
TxtUrl == << "x", ":", "/", "u" >>
TxtReferrer == << "/", "r", "%", "2", "0" >>

\* Values middleware assign to body: primitives, and undefined, null,
\* objects and a function.
BodyInputs ==
  { Str(<< >>), Str(<< "<", "é", ">" >>), Num(0), Bool(FALSE), Bool(TRUE) }
  \cup
  { Undefined, Null, Bytes(<< >>), Reader,
    Obj(<< [key |-> << "a" >>, num |-> 1] >>), BoxedNum(5), Func }

\* Values middleware assign to status.
StatusInputs == { Num(OK), Num(301), Num(NotFound) }

\* Values middleware assign to type.
TypeInputs == { Undefined, Str(<< >>), Str(TxtHtml), Str(TxtBogus) }

\* Headers objects middleware assign to headers.
HeadersInputs ==
  { EmptyHeaders, HeadersSet(EmptyHeaders, "Content-Length", << "5" >>) }

\* Calls of set(name, value) middleware make on the object the headers
\* getter returns.
HeaderCalls == { << "content-type", TxtImagePng >> }

\* Arguments of redirect(): url is a string, a URL object or REDIRECT_BACK;
\* alt is Undefined when the caller leaves it out.
RedirectInputs ==
  { << Str(TxtPath), Undefined >>, << Url(TxtUrl), Undefined >>,
    << REDIRECT_BACK, Undefined >>, << REDIRECT_BACK, Url(TxtUrl) >> }

\* The requests a response is constructed for: what headers.get("Referrer")
\* and accepts("html") answer.
Requests ==
  { [referrer |-> r, acceptsHtml |-> a] :
      r \in { Null, Str(TxtReferrer) }, a \in BOOLEAN }

\* -------------------------------------------------------------------- state

VARIABLES
  body,            \* #body
  headers,         \* #headers: the identity of a Headers object
  headersObjs,     \* the contents of the Headers objects, by identity
  request,         \* #request
  serverResponse,  \* #serverResponse
  status,          \* #status
  type,            \* #type
  writable,        \* #writable
  created,         \* how many ServerResponse objects were constructed
  last             \* the last call: its operation ("setter" for the four
                   \* property setters), what it threw or returned

vars ==
  << body, headers, headersObjs, request, serverResponse, status, type,
     writable, created, last >>

NotWritable == "Error: The response is not writable."
CouldNotConvert == "TypeError: Response body was set, but could not convert"
InOperator == "TypeError: Cannot use 'in' operator to search for 'read'"

Returned(op, value) == [op |-> op, threw |-> "", ret |-> value]
Threw(op, error) == [op |-> op, threw |-> error, ret |-> Undefined]

Init ==
  /\ body = Undefined
  /\ headers = 1
  /\ headersObjs = [i \in 1..MaxHdrObjs |-> EmptyHeaders]
  /\ request \in Requests
  /\ serverResponse = Undefined
  /\ status = Undefined
  /\ type = Undefined
  /\ writable = TRUE
  /\ created = 0
  /\ last = Returned("constructor", Undefined)

\* ------------------------------------------------------------------ getters

BODY_TYPES == {"string", "number", "bigint", "boolean", "symbol"}

\* get status reading the type as well: a response with a type counts as
\* having a body.
StatusGet_TypeCounts(st, b) ==
  IF Truthy(st) THEN st
  ELSE IF \/ Truthy(b) /\ (TypeOf(b) \in BODY_TYPES \/ TypeOf(b) = "object")
          \/ Truthy(type)
       THEN Num(OK)
       ELSE Num(NotFound)

\* get status
StatusGet(st, b) ==
  IF Truthy(st) THEN st
  ELSE IF Truthy(b) /\ (TypeOf(b) \in BODY_TYPES \/ TypeOf(b) = "object")
       THEN Num(OK)
       ELSE Num(NotFound)

\* ------------------------------------------------------------------ setters

\* set body deciding the format at once: lines 71-76 followed by the
\* inference of line 40 for a primitive value.
SetBody_InferType(value) ==
  /\ IF ~writable
     THEN /\ last' = Threw("setter", NotWritable)
          /\ UNCHANGED << body, type >>
     ELSE /\ body' = value
          /\ type' = (IF TypeOf(value) \in {"string", "number", "boolean"}
                         /\ ~Truthy(type)
                      THEN Str(<< "t", "e", "x", "t", "/", "p", "l", "a", "i", "n" >>)
                      ELSE type)
          /\ last' = Returned("setter", Undefined)
  /\ UNCHANGED << headers, headersObjs, request, serverResponse, status,
                  writable, created >>

\* set body
SetBody(value) ==
  /\ IF ~writable
     THEN /\ last' = Threw("setter", NotWritable)
          /\ UNCHANGED body
     ELSE /\ body' = value
          /\ last' = Returned("setter", Undefined)
  /\ UNCHANGED << headers, headersObjs, request, serverResponse, status, type,
                  writable, created >>

\* set headers: value is a Headers object the middleware made.  It gets the
\* next identity; the object it replaces is no longer reachable from the
\* response and its contents are dropped.
SetHeaders(value) ==
  /\ writable => headers < MaxHdrObjs
  /\ IF ~writable
     THEN /\ last' = Threw("setter", NotWritable)
          /\ UNCHANGED << headers, headersObjs >>
     ELSE /\ headers' = headers + 1
          /\ headersObjs' =
               [headersObjs EXCEPT ![headers] = EmptyHeaders,
                                   ![headers + 1] = value]
          /\ last' = Returned("setter", Undefined)
  /\ UNCHANGED << body, request, serverResponse, status, type, writable,
                  created >>

\* set status
SetStatus(value) ==
  /\ IF ~writable
     THEN /\ last' = Threw("setter", NotWritable)
          /\ UNCHANGED status
     ELSE /\ status' = value
          /\ last' = Returned("setter", Undefined)
  /\ UNCHANGED << body, headers, headersObjs, request, serverResponse, type,
                  writable, created >>

\* set type with the guard of lines 125-127 left out.
SetType_NoGuard(value) ==
  /\ type' = value
  /\ last' = Returned("setter", Undefined)
  /\ UNCHANGED << body, headers, headersObjs, request, serverResponse, status,
                  writable, created >>

\* set type
SetType(value) ==
  /\ IF ~writable
     THEN /\ last' = Threw("setter", NotWritable)
          /\ UNCHANGED type
     ELSE /\ type' = value
          /\ last' = Returned("setter", Undefined)
  /\ UNCHANGED << body, headers, headersObjs, request, serverResponse, status,
                  writable, created >>

\* response.headers.set(name, value): the getter hands out the Headers object
\* itself, which has no guard.
UseHeaders(name, value) ==
  /\ headersObjs' =
       [headersObjs EXCEPT ![headers] = HeadersSet(@, name, value)]
  /\ last' = Returned("headers.set", Undefined)
  /\ UNCHANGED << body, headers, request, serverResponse, status, type,
                  writable, created >>

\* ----------------------------------------------------------------- redirect

\* Lines 163-167 with the Referrer header ignored.
RedirectTarget_NoReferrer(url, alt) ==
  IF url = REDIRECT_BACK THEN String(alt)
  ELSE IF TypeOf(url) = "object" THEN String(url)
  ELSE url.text

\* The target of a redirect (lines 163-167).
RedirectTarget(url, alt) ==
  IF url = REDIRECT_BACK
  THEN IF Nullish(request.referrer) THEN String(alt)
       ELSE request.referrer.text
  ELSE IF TypeOf(url) = "object" THEN String(url)
  ELSE url.text

\* The body redirect() assigns (lines 173-180).
RedirectBody(target, acceptsHtml) ==
  IF acceptsHtml
  THEN Str(TxtRedirecting \o TxtHref \o encodeURI(target) \o << "\"", ">" >>
           \o encodeURI(target) \o << "<", "/", "a", ">", "." >>)
  ELSE Str(TxtRedirecting \o target \o << "." >>)

\* The type redirect() assigns (lines 175, 179).
RedirectType(acceptsHtml) ==
  IF acceptsHtml THEN Str(TxtTextHtml \o TxtCharset)
  ELSE Str(TxtTextPlain \o TxtCharset)

\* redirect() with lines 169-171 left out: the status is never forced.
Redirect_KeepStatus(url, alt) ==
  LET altv == IF alt = Undefined THEN Str(TxtSlash) ELSE alt
      target == RedirectTarget(url, altv)
  IN  /\ headersObjs' =
           [headersObjs EXCEPT
              ![headers] = HeadersSet(@, "Location", encodeUrl(target))]
      /\ IF ~writable
         THEN /\ last' = Threw("redirect", NotWritable)
              /\ UNCHANGED << body, status, type >>
         ELSE /\ status' = status
              /\ type' = RedirectType(request.acceptsHtml)
              /\ body' = RedirectBody(target, request.acceptsHtml)
              /\ last' = Returned("redirect", Undefined)
      /\ UNCHANGED << headers, request, serverResponse, writable, created >>

\* redirect() with the type and body assignments of the two branches of
\* lines 173-180 exchanged.
Redirect_Swapped(url, alt) ==
  LET altv == IF alt = Undefined THEN Str(TxtSlash) ELSE alt
      target == RedirectTarget(url, altv)
      cur == StatusGet(status, body)
  IN  /\ headersObjs' =
           [headersObjs EXCEPT
              ![headers] = HeadersSet(@, "Location", encodeUrl(target))]
      /\ IF ~writable
         THEN /\ last' = Threw("redirect", NotWritable)
              /\ UNCHANGED << body, status, type >>
         ELSE /\ status' =
                   IF ~Truthy(cur) \/ ~isRedirectStatus(cur) THEN Num(Found)
                   ELSE status
              /\ type' = RedirectType(~request.acceptsHtml)
              /\ body' = RedirectBody(target, ~request.acceptsHtml)
              /\ last' = Returned("redirect", Undefined)
      /\ UNCHANGED << headers, request, serverResponse, writable, created >>

\* redirect(url, alt): alt is Undefined when the caller leaves it out, and
\* then takes its default "/".  Location is written through the Headers
\* object before any guarded setter runs; on a response that is no longer
\* writable the first setter reached (status or type) throws.
Redirect(url, alt) ==
  LET altv == IF alt = Undefined THEN Str(TxtSlash) ELSE alt
      target == RedirectTarget(url, altv)
      cur == StatusGet(status, body)
  IN  /\ headersObjs' =
           [headersObjs EXCEPT
              ![headers] = HeadersSet(@, "Location", encodeUrl(target))]
      /\ IF ~writable
         THEN /\ last' = Threw("redirect", NotWritable)
              /\ UNCHANGED << body, status, type >>
         ELSE /\ status' =
                   IF ~Truthy(cur) \/ ~isRedirectStatus(cur) THEN Num(Found)
                   ELSE status
              /\ type' = RedirectType(request.acceptsHtml)
              /\ body' = RedirectBody(target, request.acceptsHtml)
              /\ last' = Returned("redirect", Undefined)
      /\ UNCHANGED << headers, request, serverResponse, writable, created >>

\* --------------------------------------------------------- toServerResponse

\* isReader: the in operator throws on null, which typeof calls an object.
isReaderThrows(value) == TypeOf(value) = "object" /\ value.kind = "null"
isReader(value) == TypeOf(value) = "object" /\ value.kind = "reader"

\* #getBody with line 37 testing the body for truth as the status getter
\* does, so that a falsy primitive is resolved like an absent body.
getBody_TruthyPrimitive(b, t, w) ==
  LET typeofBody == TypeOf(b)
      bodyText == String(b)
      ok(result, newType) == [threw |-> "", result |-> result, type |-> newType]
      fail(error) == [threw |-> error, result |-> Undefined, type |-> t]
  IN  IF Truthy(b) /\ typeofBody \in BODY_TYPES
      THEN IF ~w THEN fail(NotWritable)
           ELSE ok(Bytes(encode(bodyText)),
                   IF Truthy(t) THEN t
                   ELSE IF isHtml(bodyText) THEN Str(TxtHtml)
                   ELSE Str(TxtTextPlain))
      ELSE IF b.kind # "Uint8Array" /\ isReaderThrows(b) THEN fail(InOperator)
      ELSE IF b.kind = "Uint8Array" \/ isReader(b) THEN ok(b, t)
      ELSE IF Truthy(b) /\ typeofBody = "object"
      THEN IF ~w THEN fail(NotWritable)
           ELSE ok(Bytes(encode(JSONstringify(b))),
                   IF Truthy(t) THEN t ELSE Str(TxtJson))
      ELSE IF Truthy(b) THEN fail(CouldNotConvert)
      ELSE ok(Undefined, t)

\* #getBody with line 45 assigning "json" over a type already set.
getBody_AlwaysJson(b, t, w) ==
  LET typeofBody == TypeOf(b)
      bodyText == String(b)
      ok(result, newType) == [threw |-> "", result |-> result, type |-> newType]
      fail(error) == [threw |-> error, result |-> Undefined, type |-> t]
  IN  IF typeofBody \in BODY_TYPES
      THEN IF ~w THEN fail(NotWritable)
           ELSE ok(Bytes(encode(bodyText)),
                   IF Truthy(t) THEN t
                   ELSE IF isHtml(bodyText) THEN Str(TxtHtml)
                   ELSE Str(TxtTextPlain))
      ELSE IF b.kind # "Uint8Array" /\ isReaderThrows(b) THEN fail(InOperator)
      ELSE IF b.kind = "Uint8Array" \/ isReader(b) THEN ok(b, t)
      ELSE IF Truthy(b) /\ typeofBody = "object"
      THEN IF ~w THEN fail(NotWritable)
           ELSE ok(Bytes(encode(JSONstringify(b))), Str(TxtJson))
      ELSE IF Truthy(b) THEN fail(CouldNotConvert)
      ELSE ok(Undefined, t)

\* #getBody: the resolved body and the type it leaves, or what it threw.
\* The assignments to this.type go through the guarded setter.
getBody(b, t, w) ==
  LET typeofBody == TypeOf(b)
      bodyText == String(b)
      ok(result, newType) == [threw |-> "", result |-> result, type |-> newType]
      fail(error) == [threw |-> error, result |-> Undefined, type |-> t]
  IN  IF typeofBody \in BODY_TYPES
      THEN IF ~w THEN fail(NotWritable)
           ELSE ok(Bytes(encode(bodyText)),
                   IF Truthy(t) THEN t
                   ELSE IF isHtml(bodyText) THEN Str(TxtHtml)
                   ELSE Str(TxtTextPlain))
      ELSE IF b.kind # "Uint8Array" /\ isReaderThrows(b) THEN fail(InOperator)
      ELSE IF b.kind = "Uint8Array" \/ isReader(b) THEN ok(b, t)
      ELSE IF Truthy(b) /\ typeofBody = "object"
      THEN IF ~w THEN fail(NotWritable)
           ELSE ok(Bytes(encode(JSONstringify(b))),
                   IF Truthy(t) THEN t ELSE Str(TxtJson))
      ELSE IF Truthy(b) THEN fail(CouldNotConvert)
      ELSE ok(Undefined, t)

\* #setContentType with the has("Content-Type") test of line 55 left out.
setContentType_NoHasTest(t, h) ==
  IF Truthy(t)
  THEN LET contentTypeString == contentType(t.text)
       IN  IF Truthy(contentTypeString)
           THEN HeadersAppend(h, "Content-Type", contentTypeString.text)
           ELSE h
  ELSE h

\* #setContentType: the Headers contents it leaves.
setContentType(t, h) ==
  IF Truthy(t)
  THEN LET contentTypeString == contentType(t.text)
       IN  IF Truthy(contentTypeString) /\ ~HeadersHas(h, "Content-Type")
           THEN HeadersAppend(h, "Content-Type", contentTypeString.text)
           ELSE h
  ELSE h

\* Lines 199-207 with the Content-Type test of line 202 left out.
setContentLength_NoTypeTest(resolved, h) ==
  IF ~(Truthy(resolved) \/ HeadersHas(h, "Content-Length"))
  THEN HeadersAppend(h, "Content-Length", << "0" >>)
  ELSE h

\* Lines 199-207: Content-Length: 0 when there is no body, no content type
\* and no length.
setContentLength(resolved, h) ==
  IF ~(Truthy(resolved) \/ HeadersHas(h, "Content-Type")
       \/ HeadersHas(h, "Content-Length"))
  THEN HeadersAppend(h, "Content-Length", << "0" >>)
  ELSE h

\* Line 211 with the explicit status ignored.
PayloadStatus_Derived(st, resolved) ==
  IF Truthy(resolved) THEN Num(OK) ELSE Num(NotFound)

\* Line 211: the status of the payload.
PayloadStatus(st, resolved) ==
  IF ~Nullish(st) THEN st
  ELSE IF Truthy(resolved) THEN Num(OK) ELSE Num(NotFound)

\* The conversion proper (lines 189-214), run when no payload is stored.
Convert ==
  LET got == getBody(body, type, writable)
       IN  IF got.threw # ""
           THEN /\ last' = Threw("toServerResponse", got.threw)
                /\ UNCHANGED << body, headers, headersObjs, request,
                                serverResponse, status, type, writable,
                                created >>
           ELSE LET h == setContentLength(got.result,
                           setContentType(got.type, headersObjs[headers]))
                    payload ==
                      [kind |-> "ServerResponse", id |-> created + 1,
                       status |-> PayloadStatus(status, got.result),
                       body |-> got.result, headers |-> headers]
                IN  /\ type' = got.type
                    /\ headersObjs' = [headersObjs EXCEPT ![headers] = h]
                    /\ writable' = FALSE
                    /\ serverResponse' = payload
                    /\ created' = created + 1
                    /\ last' = Returned("toServerResponse", payload)
                    /\ UNCHANGED << body, headers, request, status >>

\* toServerResponse() with the memoization of lines 186-188 left out.
ToServerResponse_NoMemo == Convert

\* toServerResponse() with line 209 moved before the body is processed.
ToServerResponse_FreezeFirst ==
  IF Truthy(serverResponse)
  THEN /\ last' = Returned("toServerResponse", serverResponse)
       /\ UNCHANGED << body, headers, headersObjs, request, serverResponse,
                       status, type, writable, created >>
  ELSE LET got == getBody(body, type, writable)
       IN  IF got.threw # ""
           THEN /\ writable' = FALSE
                /\ last' = Threw("toServerResponse", got.threw)
                /\ UNCHANGED << body, headers, headersObjs, request,
                                serverResponse, status, type, created >>
           ELSE Convert

\* toServerResponse() with line 209 left out: the payload is stored and the
\* response stays writable.
ToServerResponse_NoFreeze ==
  IF Truthy(serverResponse)
  THEN /\ last' = Returned("toServerResponse", serverResponse)
       /\ UNCHANGED << body, headers, headersObjs, request, serverResponse,
                       status, type, writable, created >>
  ELSE LET got == getBody(body, type, writable)
       IN  IF got.threw # ""
           THEN Convert
           ELSE LET h == setContentLength(got.result,
                           setContentType(got.type, headersObjs[headers]))
                    payload ==
                      [kind |-> "ServerResponse", id |-> created + 1,
                       status |-> PayloadStatus(status, got.result),
                       body |-> got.result, headers |-> headers]
                IN  /\ type' = got.type
                    /\ headersObjs' = [headersObjs EXCEPT ![headers] = h]
                    /\ serverResponse' = payload
                    /\ created' = created + 1
                    /\ last' = Returned("toServerResponse", payload)
                    /\ UNCHANGED << body, headers, request, status, writable >>

\* toServerResponse()
ToServerResponse ==
  IF Truthy(serverResponse)
  THEN /\ last' = Returned("toServerResponse", serverResponse)
       /\ UNCHANGED << body, headers, headersObjs, request, serverResponse,
                       status, type, writable, created >>
  ELSE Convert

\* ------------------------------------------------------------ specification

Next ==
  \/ \E value \in BodyInputs : SetBody(value)
  \/ \E value \in HeadersInputs : SetHeaders(value)
  \/ \E value \in StatusInputs : SetStatus(value)
  \/ \E value \in TypeInputs : SetType(value)
  \/ \E call \in HeaderCalls : UseHeaders(call[1], call[2])
  \/ \E args \in RedirectInputs : Redirect(args[1], args[2])
  \/ ToServerResponse

Spec == Init /\ [][Next]_vars

\* ------------------------------------------------------------------- claims

\* The response has been finalized: toServerResponse() has returned.
Finalized == Truthy(serverResponse)

\* The contents of the Headers object the payload holds.
PayloadHeaders == headersObjs[serverResponse.headers]

\* C1: after toServerResponse() has returned, every call of the body,
\* headers, status or type setter throws the "not writable" error and leaves
\* body, headers, status and type as they were.
C1_SettersFailAfterFinalize ==
  [][(Finalized /\ last'.op = "setter") =>
       /\ last'.threw = NotWritable
       /\ body' = body
       /\ headers' = headers
       /\ headersObjs' = headersObjs
       /\ status' = status
       /\ type' = type]_vars

\* C1 witness: a setter was called on a finalized response and threw.
C1_Witness ==
  Finalized /\ last.op = "setter" /\ last.threw = NotWritable

\* C2: once toServerResponse() has returned, the payload's status, body and
\* headers contents never change, whatever is called on the response
\* afterwards (setters, redirect, in-place use of the headers object,
\* toServerResponse again).
C2_PayloadFrozen ==
  [][Finalized =>
       /\ serverResponse' = serverResponse
       /\ headersObjs'[serverResponse.headers] = PayloadHeaders]_vars

\* C3: the first successful toServerResponse() stores the payload it returns;
\* every later call returns that same object and repeats no conversion step
\* (type, headers and the number of payloads constructed are unchanged).
C3_Idempotent ==
  [][last'.op = "toServerResponse" =>
       IF Finalized
       THEN /\ last'.threw = ""
            /\ last'.ret = serverResponse
            /\ serverResponse' = serverResponse
            /\ type' = type
            /\ headersObjs' = headersObjs
            /\ created' = created
       ELSE last'.threw = "" => last'.ret = serverResponse']_vars

\* C3 witness: toServerResponse() was called again after the payload existed:
\* the payload's headers carry both the Content-Length: 0 that conversion
\* appends only when there is no Content-Type, and a Content-Type written in
\* place afterwards, and the last call returned the stored payload.
C3_Witness ==
  /\ Finalized
  /\ last = Returned("toServerResponse", serverResponse)
  /\ PayloadHeaders["content-length"] = << << "0" >> >>
  /\ HeadersHas(PayloadHeaders, "Content-Type")

\* C4: while status has never been set, the status getter returns 200 if and
\* only if body is neither null nor undefined (so also for "", 0 and false),
\* and 404 otherwise.
C4_StatusFollowsBodyPresence ==
  ~Truthy(status) =>
    StatusGet(status, body) = (IF Nullish(body) THEN Num(NotFound) ELSE Num(OK))

\* C5: when status was never set, the status the getter reads around a
\* successful conversion (body and status are the same before and after it)
\* is the status of the payload.
C5_StatusReadIsStatusSent ==
  (Finalized /\ ~Truthy(status)) =>
    StatusGet(status, body) = serverResponse.status

\* C6: toServerResponse() on a response whose body is undefined or null
\* succeeds: the payload body is absent, type is not inferred, and when status
\* is unset and neither Content-Type nor Content-Length is present the payload
\* has status 404 and Content-Length: 0.
C6_AbsentBodyFinalizes ==
  [][(~Finalized /\ Nullish(body) /\ last'.op = "toServerResponse") =>
       /\ last'.threw = ""
       /\ serverResponse'.body = Undefined
       /\ type' = type
       /\ (/\ status = Undefined
           /\ ~HeadersHas(headersObjs'[headers], "Content-Type")
           /\ ~HeadersHas(headersObjs[headers], "Content-Length"))
          => /\ serverResponse'.status = Num(NotFound)
             /\ headersObjs'[headers]["content-length"] = << << "0" >> >>]_vars

\* C7: an explicitly set status is the status of the payload, whether the
\* resolved body is absent or present; the 200/404 default by the presence of
\* the resolved body is used only when status was never set.
C7_ExplicitStatusWins ==
  Finalized =>
    serverResponse.status =
      (IF status # Undefined THEN status
       ELSE IF serverResponse.body # Undefined THEN Num(OK)
       ELSE Num(NotFound))

\* C7 witness: status was set to 200 and the response finalized with no
\* body, where the default would have been 404.
C7_Witness ==
  /\ Finalized
  /\ status = Num(OK)
  /\ serverResponse.body = Undefined
  /\ serverResponse.status = Num(OK)

\* C8: a conversion that fails because the body has no recognized shape (a
\* function) completes nothing: writable stays true, no payload is stored,
\* type and headers are unchanged; and a conversion of an unfinalized
\* response whose body is convertible (here: after the body was replaced)
\* succeeds and finalizes.
C8_FailedConversionIsClean ==
  [][last'.op = "toServerResponse" =>
       /\ (~Finalized /\ body = Func) => last'.threw = CouldNotConvert
       /\ last'.threw = CouldNotConvert =>
            /\ writable /\ writable'
            /\ serverResponse' = Undefined
            /\ type' = type
            /\ headers' = headers
            /\ headersObjs' = headersObjs
       /\ (~Finalized /\ body.kind \notin {"function", "null"}) =>
            /\ last'.threw = ""
            /\ ~writable'
            /\ Truthy(serverResponse')
            /\ last'.ret = serverResponse']_vars

\* C8 witness: a conversion has just failed on a function body and the
\* response is still writable.
C8_Witness ==
  /\ body = Func
  /\ last = Threw("toServerResponse", CouldNotConvert)
  /\ writable
  /\ ~Finalized

\* The body is a string, number or boolean primitive.
IsPrimitive(b) == TypeOf(b) \in {"string", "number", "boolean"}

\* The type inferred for a primitive body from its text.
InferredText(b) ==
  IF isHtml(String(b)) THEN Str(TxtHtml) ELSE Str(TxtTextPlain)

\* The UTF-8 text and the inferred type of the primitive bodies middleware
\* assign, written out.
PrimitiveCases ==
  { << Str(<< >>), << >>, TxtTextPlain >>,
    << Num(0), << 48 >>, TxtTextPlain >>,
    << Bool(FALSE), << 102, 97, 108, 115, 101 >>, TxtTextPlain >>,
    << Bool(TRUE), << 116, 114, 117, 101 >>, TxtTextPlain >>,
    << Str(<< "<", "é", ">" >>), << 60, 195, 169, 62 >>, TxtHtml >> }

\* C9 as stated: converting a primitive body yields the encoded String(body)
\* and sets type to "html" or "text/plain" when type was unset; a type that
\* was set is left as it was.
C9_PrimitiveBodyAsStated ==
  [][(~Finalized /\ IsPrimitive(body) /\ last'.op = "toServerResponse") =>
       /\ last'.threw = ""
       /\ serverResponse'.body = Bytes(encode(String(body)))
       /\ type' = (IF type = Undefined THEN InferredText(body) ELSE type)]_vars

\* C9 amended: as C9, but the type that is left as it was is a non-empty
\* one; an empty-string type is replaced like an unset type.
C9_PrimitiveBody ==
  [][(~Finalized /\ IsPrimitive(body) /\ last'.op = "toServerResponse") =>
       /\ last'.threw = ""
       /\ serverResponse'.body = Bytes(encode(String(body)))
       /\ type' = (IF type \in {Undefined, Str(<< >>)} THEN InferredText(body)
                   ELSE type)
       /\ \A c \in PrimitiveCases :
            body = c[1] =>
              /\ serverResponse'.body.bytes = c[2]
              /\ type \in {Undefined, Str(<< >>)} => type' = Str(c[3])]_vars

\* C9 witness: the number 0 was converted with no type set.
C9_Witness ==
  /\ Finalized
  /\ last.op = "toServerResponse"
  /\ body = Num(0)
  /\ serverResponse.body = Bytes(<< 48 >>)
  /\ type = Str(TxtTextPlain)

\* The body is a non-null object that is neither a byte sequence nor a reader.
IsStructured(b) == b.kind \in {"object", "Number"}

\* The Content-Type header conversion leaves when none was present and type t
\* was set before it.
DrivenContentType(t) ==
  IF Truthy(contentType(t.text)) THEN << contentType(t.text).text >> ELSE << >>

\* C10 as stated: converting a structured body yields the encoded JSON and
\* sets type to "json" when type was unset; a type that was set is preserved
\* and decides the Content-Type header.
C10_StructuredBodyAsStated ==
  [][(~Finalized /\ IsStructured(body) /\ last'.op = "toServerResponse") =>
       /\ last'.threw = ""
       /\ serverResponse'.body = Bytes(encode(JSONstringify(body)))
       /\ type' = (IF type = Undefined THEN Str(TxtJson) ELSE type)
       /\ (type # Undefined /\ ~HeadersHas(headersObjs[headers], "Content-Type"))
          => headersObjs'[headers]["content-type"] = DrivenContentType(type)]_vars

\* C10 amended: as C10, but the type that is preserved and decides the
\* Content-Type header is a non-empty one; an empty-string type is replaced
\* by "json" like an unset type.
C10_StructuredBody ==
  [][(~Finalized /\ IsStructured(body) /\ last'.op = "toServerResponse") =>
       /\ last'.threw = ""
       /\ serverResponse'.body = Bytes(encode(JSONstringify(body)))
       /\ type' = (IF type \in {Undefined, Str(<< >>)} THEN Str(TxtJson)
                   ELSE type)
       /\ (Truthy(type) /\ ~HeadersHas(headersObjs[headers], "Content-Type"))
          => headersObjs'[headers]["content-type"] = DrivenContentType(type)
       /\ body = Obj(<< [key |-> << "a" >>, num |-> 1] >>) =>
            serverResponse'.body.bytes = << 123, 34, 97, 34, 58, 49, 125 >>
       /\ body = BoxedNum(5) => serverResponse'.body.bytes = << 53 >>
       /\ (type = Str(TxtHtml) /\ ~HeadersHas(headersObjs[headers], "Content-Type"))
          => headersObjs'[headers]["content-type"] = << TxtTextHtml \o TxtCharset >>
       /\ type = Str(TxtBogus) =>
            headersObjs'[headers]["content-type"] =
              headersObjs[headers]["content-type"]]_vars

\* C10 witness: an object was converted with type set to "html" beforehand:
\* the type is still "html" and the Content-Type header is the html one.
C10_Witness ==
  /\ Finalized
  /\ last.op = "toServerResponse"
  /\ body = Obj(<< [key |-> << "a" >>, num |-> 1] >>)
  /\ serverResponse.body = Bytes(<< 123, 34, 97, 34, 58, 49, 125 >>)
  /\ type = Str(TxtHtml)
  /\ PayloadHeaders["content-type"] = << TxtTextHtml \o TxtCharset >>

\* A step is a conversion that succeeded: toServerResponse() ran lines
\* 189-214 and stored the payload.
Converted == ~Finalized /\ last'.op = "toServerResponse" /\ last'.threw = ""

\* C11: a conversion appends Content-Length: 0 exactly when the resolved body
\* is absent and, after content-type synthesis, neither Content-Type nor
\* Content-Length is present; otherwise it leaves the Content-Length values
\* as they were.
C11_ContentLengthZero ==
  [][Converted =>
       LET before == headersObjs[headers]
           after == headersObjs'[headers]
       IN  after["content-length"] =
             (IF /\ serverResponse'.body = Undefined
                 /\ after["content-type"] = << >>
                 /\ before["content-length"] = << >>
              THEN << << "0" >> >>
              ELSE before["content-length"])]_vars

\* C11 witness: a response with no body, but with a type that resolves, was
\* converted: Content-Type was synthesized and no Content-Length was added.
C11_Witness ==
  /\ Finalized
  /\ last.op = "toServerResponse"
  /\ serverResponse.body = Undefined
  /\ PayloadHeaders["content-type"] = << TxtTextHtml \o TxtCharset >>
  /\ PayloadHeaders["content-length"] = << >>

\* The Location value of a redirect back, written out: the Referrer header
\* "/r%20" keeps its escape, the URL object "x:/u" and the default "/" need
\* none.
BackLocation(alt) ==
  IF request.referrer # Null THEN << "/", "r", "%", "2", "0" >>
  ELSE IF alt # Undefined THEN << "x", ":", "/", "u" >>
  ELSE << "/" >>

\* C12: redirect(REDIRECT_BACK, alt) on a writable response targets the
\* request's Referrer header when there is one, otherwise String(alt),
\* otherwise "/"; Location is replaced by the escaped target, and with no
\* Referrer, no alt and status unset the status becomes 302.
C12_RedirectBack ==
  [][\A alt \in { Undefined, Url(TxtUrl) } :
       (writable /\ Redirect(REDIRECT_BACK, alt)) =>
         /\ last' = Returned("redirect", Undefined)
         /\ headersObjs'[headers]["location"] = << BackLocation(alt) >>
         /\ (request.referrer = Null /\ alt = Undefined /\ status = Undefined)
            => status' = Num(302)]_vars

\* C12 witness: a redirect back with no Referrer header and no alt has
\* returned: Location is "/" alone, the status is 302 and the body names "/".
C12_Witness ==
  /\ writable
  /\ last = Returned("redirect", Undefined)
  /\ request.referrer = Null
  /\ headersObjs[headers]["location"] = << << "/" >> >>
  /\ status = Num(302)
  /\ body \in { Str(TxtRedirecting \o << "/", "." >>),
                Str(TxtRedirecting \o TxtHref \o << "/", "\"", ">", "/" >>
                    \o << "<", "/", "a", ">", "." >>) }

\* The redirect class of statuses, written out.
RedirectClass == { Num(n) : n \in {300, 301, 302, 303, 305, 307, 308} }

\* C13: a redirect on a writable response leaves a redirect-class status: a
\* redirect-class status that was set is kept, an unset or other status
\* becomes 302 whatever the body; and a conversion carries the status so left
\* into the payload.
C13_RedirectStatus ==
  [][/\ (writable /\ last'.op = "redirect") =>
          /\ status' = (IF status \in RedirectClass THEN status ELSE Num(302))
          /\ status' \in RedirectClass
     /\ (Converted /\ status \in RedirectClass) =>
          serverResponse'.status = status]_vars

\* C13 witness: a response whose status was forced to 302 by a redirect (its
\* body is the redirect message, its Location is set) was converted, and the
\* payload carries 302.
C13_Witness ==
  /\ Finalized
  /\ status = Num(302)
  /\ serverResponse.status = Num(302)
  /\ HeadersHas(PayloadHeaders, "Location")
  /\ type \in { RedirectType(TRUE), RedirectType(FALSE) }

\* The target of each redirect call and its encodeURI escape, written out.
RedirectCase(url, alt) ==
  IF url = Str(TxtPath)
  THEN [raw |-> << "/", "a", " ", "b" >>,
        escaped |-> << "/", "a", "%", "2", "0", "b" >>]
  ELSE IF url = Url(TxtUrl) \/ (request.referrer = Null /\ alt # Undefined)
  THEN [raw |-> << "x", ":", "/", "u" >>, escaped |-> << "x", ":", "/", "u" >>]
  ELSE IF request.referrer = Null
  THEN [raw |-> << "/" >>, escaped |-> << "/" >>]
  ELSE [raw |-> << "/", "r", "%", "2", "0" >>,
        escaped |-> << "/", "r", "%", "2", "5", "2", "0" >>]

\* C14: redirect() on a writable response replaces type and body by the
\* request's answer to accepts("html"): "text/html; charset=utf-8" and an
\* anchor linking to the escaped target, or "text/plain; charset=utf-8" and a
\* plain message naming the target.
C14_RedirectNegotiatesBody ==
  [][\A args \in RedirectInputs :
       (writable /\ Redirect(args[1], args[2])) =>
         LET c == RedirectCase(args[1], args[2])
         IN  IF request.acceptsHtml
             THEN /\ type' = Str(TxtTextHtml \o TxtCharset)
                  /\ body' =
                       Str(TxtRedirecting
                           \o << "<", "a", " ", "h", "r", "e", "f", "=", "\"" >>
                           \o c.escaped \o << "\"", ">" >> \o c.escaped
                           \o << "<", "/", "a", ">", "." >>)
             ELSE /\ type' = Str(TxtTextPlain \o TxtCharset)
                  /\ body' = Str(TxtRedirecting \o c.raw \o << "." >>)]_vars

\* C14 witness: a redirect to "/a b" for a request that accepts html has
\* returned: the type is text/html and the body an anchor to "/a%20b".
C14_Witness ==
  /\ writable
  /\ last = Returned("redirect", Undefined)
  /\ request.acceptsHtml
  /\ type = Str(TxtTextHtml \o TxtCharset)
  /\ body = Str(TxtRedirecting \o TxtHref
                \o << "/", "a", "%", "2", "0", "b", "\"", ">" >>
                \o << "/", "a", "%", "2", "0", "b", "<", "/", "a", ">", "." >>)

\* C15: writable is true at construction, becomes false only in a step where
\* toServerResponse() returns a payload, and once false stays false whatever
\* is called (setters, redirect, use of the headers, conversions).
C15_WritableOneWay ==
  /\ writable = TRUE
  /\ [][/\ ~writable => ~writable'
        /\ (writable /\ ~writable') =>
             /\ last'.op = "toServerResponse"
             /\ last'.threw = ""
             /\ last'.ret = serverResponse'
             /\ Truthy(serverResponse')]_vars

\* C15 witness: redirect() was called on a response that is no longer
\* writable and threw; the response is still not writable.
C15_Witness ==
  ~writable /\ last = Threw("redirect", NotWritable)

\* C16: the response is not writable exactly when a payload is stored.
C16_FrozenIffPayload == writable <=> ~Finalized

\* C16 witness: a conversion of an object body has returned: the response
\* is frozen and holds the one payload created.
C16_Witness ==
  /\ ~writable
  /\ Finalized
  /\ created = 1
  /\ body # Func
  /\ last = Returned("toServerResponse", serverResponse)
  /\ serverResponse.body = Bytes(<< 123, 34, 97, 34, 58, 49, 125 >>)

\* The Content-Type values synthesis leaves on headers that had none, for the
\* type t the response has after the body was resolved.
SynthesizedContentType(t) ==
  IF t = Undefined THEN << >> ELSE DrivenContentType(t)

\* C17: a conversion leaves a Content-Type header that was present as it
\* was; when none was present it leaves exactly the one value the type
\* (explicit or inferred) resolves to, and none when the type is unset or
\* does not resolve; the Location header is not touched. A call of the type
\* setter never changes the headers.
C17_ContentTypeSynthesis ==
  [][/\ Converted =>
          LET before == headersObjs[headers]
              after == headersObjs'[headers]
          IN  /\ after["content-type"] =
                   (IF HeadersHas(before, "Content-Type")
                    THEN before["content-type"]
                    ELSE SynthesizedContentType(type'))
              /\ ~HeadersHas(before, "Content-Type")
                 => Len(after["content-type"]) =
                      (IF type' \in { Str(TxtHtml), Str(TxtJson),
                                      Str(TxtTextPlain),
                                      Str(TxtTextHtml \o TxtCharset),
                                      Str(TxtTextPlain \o TxtCharset) }
                       THEN 1 ELSE 0)
              /\ after["location"] = before["location"]
     /\ \A value \in TypeInputs :
          SetType(value) => headers' = headers /\ headersObjs' = headersObjs]_vars

\* C17 witness: a response whose type "html" resolves was converted and its
\* headers hold the hand-set Content-Type alone, with no synthesized value
\* beside it.
C17_Witness ==
  /\ Finalized
  /\ last.op = "toServerResponse"
  /\ type = Str(TxtHtml)
  /\ body = Undefined
  /\ PayloadHeaders["content-type"] = << TxtImagePng >>

\* The payload body a conversion makes of the body b, written out for the
\* values middleware assign; any other text is encoded as it is.
ResolutionOf(b) ==
  CASE b = Undefined -> Undefined
    [] b = Reader -> Reader
    [] b = Bytes(<< >>) -> Bytes(<< >>)
    [] b = Str(<< >>) -> Bytes(<< >>)
    [] b = Str(<< "<", "é", ">" >>) -> Bytes(<< 60, 195, 169, 62 >>)
    [] b = Num(0) -> Bytes(<< 48 >>)
    [] b = Bool(FALSE) -> Bytes(<< 102, 97, 108, 115, 101 >>)
    [] b = Bool(TRUE) -> Bytes(<< 116, 114, 117, 101 >>)
    [] b = Obj(<< [key |-> << "a" >>, num |-> 1] >>) ->
         Bytes(<< 123, 34, 97, 34, 58, 49, 125 >>)
    [] b = BoxedNum(5) -> Bytes(<< 53 >>)
    [] OTHER -> Bytes(encode(b.text))

\* Sequence s is a prefix of sequence t.
IsPrefix(s, t) == Len(s) <= Len(t) /\ SubSeq(t, 1, Len(s)) = s

\* C18: a setter call on a writable response writes its own field and
\* nothing else, so it decides neither type nor headers; a conversion that
\* succeeds makes the payload of the values the response holds then: the
\* resolution of body, the headers object with at most synthesized values
\* added, and status when one was assigned.
C18_LastWriteWins ==
  [][/\ \A value \in BodyInputs :
          (writable /\ SetBody(value)) =>
            /\ body' = value
            /\ type' = type /\ status' = status
            /\ headers' = headers /\ headersObjs' = headersObjs
     /\ \A value \in HeadersInputs :
          (writable /\ SetHeaders(value)) =>
            /\ headers' # headers
            /\ headersObjs'[headers'] = value
            /\ body' = body /\ type' = type /\ status' = status
     /\ \A value \in StatusInputs :
          (writable /\ SetStatus(value)) =>
            /\ status' = value
            /\ body' = body /\ type' = type
            /\ headers' = headers /\ headersObjs' = headersObjs
     /\ Converted =>
          /\ serverResponse'.body = ResolutionOf(body)
          /\ serverResponse'.headers = headers
          /\ \A n \in HeaderNames :
               IsPrefix(headersObjs[headers][n], headersObjs'[headers][n])
          /\ status # Undefined => serverResponse'.status = status
          /\ body' = body /\ status' = status /\ headers' = headers]_vars

\* C18 witness: the headers the response was built with were replaced by an
\* assigned collection carrying Content-Length 5, the body holds 0 and the
\* status 301; the payload has that collection with the synthesized
\* Content-Type, the encoded "0" and 301.
C18_Witness ==
  /\ Finalized
  /\ last.op = "toServerResponse"
  /\ headers = 2
  /\ serverResponse.headers = 2
  /\ PayloadHeaders["content-length"] = << << "5" >> >>
  /\ PayloadHeaders["content-type"] = << TxtTextPlain \o TxtCharset >>
  /\ body = Num(0)
  /\ serverResponse.body = Bytes(<< 48 >>)
  /\ status = Num(301)
  /\ serverResponse.status = Num(301)

\* The status read while none was set, as a function of the body alone.
BodyOnlyStatus(b) ==
  IF b \in { Undefined, Null, Str(<< >>), Num(0), Bool(FALSE), Func }
  THEN Num(NotFound)
  ELSE Num(OK)

\* C19: while no status has been set, the status read is one function of the
\* body in every state, whatever type and headers are, and a step that
\* leaves the body alone leaves the status read as it was.
C19_StatusReadDependsOnBodyOnly ==
  [][/\ status = Undefined => StatusGet(status, body) = BodyOnlyStatus(body)
     /\ (status = Undefined /\ status' = Undefined /\ body' = body) =>
          StatusGet(status, body)' = StatusGet(status, body)]_vars

\* C19 witness: no status and no body were set, a type was set and a
\* Content-Type header written, and the status read is still 404.
C19_Witness ==
  /\ writable
  /\ status = Undefined
  /\ body = Undefined
  /\ type = Str(TxtHtml)
  /\ headersObjs[headers]["content-type"] = << TxtImagePng >>
  /\ StatusGet(status, body) = Num(NotFound)

\* C20: a boxed number assigned as body is resolved by the primitive rule:
\* the conversion yields its stringified text encoded and leaves type
\* "text/plain" when none was set, not "json".
C20_BoxedNumberIsPrimitive ==
  [][(~Finalized /\ body = BoxedNum(5) /\ last'.op = "toServerResponse") =>
       /\ last'.threw = ""
       /\ serverResponse'.body = Bytes(<< 53 >>)
       /\ type' = (IF Truthy(type) THEN type ELSE Str(TxtTextPlain))]_vars

====
